---------------------------- MODULE Spec2Model ----------------------------
(***************************************************************************)
(* Model of cda2_tool.py, the cross drive analysis tool of bulk_extractor. *)
(*                                                                         *)
(* The store is the sqlite database behind the module-wide connection      *)
(* `conn`, with the four tables the schema text declares.  `committed` is  *)
(* what is on disk, `conn` is what the connection sees, i.e. the committed *)
(* rows plus the rows of the open transaction.  Python's sqlite3 opens a   *)
(* transaction before the first INSERT/DELETE and closes it at             *)
(* conn.commit(); an exception that leaves the program discards it.        *)
(*                                                                         *)
(* Feature texts are byte strings, modelled as sequences of byte values.   *)
(* Scores are sums of 1.0/drivecount, modelled as exact fractions          *)
(* <<numerator, denominator>> in lowest terms.                             *)
(***************************************************************************)
EXTENDS Integers, Sequences, FiniteSets, Bags, TLC

VARIABLES
    committed,          \* the database as committed
    conn,               \* the database as the connection sees it
    pc,                 \* where the running operation is
    driveid,            \* ingest: the driveid of the report being ingested
    pe_header_counts,   \* ingest: the tally of winpe features
    nread,              \* ingest: entries read from the report so far
    entries,            \* ingest: the entries read from the report, in order
    resolved,           \* ingest: the <<text, id>> pairs get_featureid returned
    last,               \* the operation that runs or ran last, and how it ended
    before,             \* the committed database when that operation started
    result,             \* what the last correlate_for_type computed
    callers             \* programs that run get_featureid on the same database file

vars == <<committed, conn, pc, driveid, pe_header_counts, nread, entries,
          resolved, last, before, result, callers>>

-----------------------------------------------------------------------------
(* Bounds of the model *)

MaxDrives == 2

MaxEntries == 2

MaxCount == 2

MaxThreshold == 2

\* drives of the databases correlations are tried on
CorrDrives == 3

\* programs running at the same time on one database file
NumCallers == 2

\* get_featureid calls of one program
MaxCalls == 2

-----------------------------------------------------------------------------
(* Program constants *)

SEARCH_TYPE == 1

EMAIL_TYPE == 2

WINPE_TYPE == 3

FeatureTypes == {SEARCH_TYPE, EMAIL_TYPE, WINPE_TYPE}

\* b"cache:"
CachePrefix == <<99, 97, 99, 104, 101, 58>>

\* the feature texts reports yield: b"x", b"cache:q"
Texts == {<<120>>, CachePrefix \o <<113>>}

\* image file names of the reports
DriveNames == 1..MaxDrives

Counts == 1..MaxCount

\* values of --drive_threshold
Thresholds == 1..MaxThreshold

\* the names bound at module level when a function body runs
ModuleNames == {"schema", "SEARCH_TYPE", "EMAIL_TYPE", "WINPE_TYPE",
                "create_schema", "get_driveid", "get_drivename", "get_featureid",
                "list_drives", "feature_drive_count", "ingest",
                "correlate_for_type", "make_report", "test",
                "build_feature_frequences", "conn", "args", "parser"}

\* the options the argument parser accepts; --makestop and --threshold are
\* no prefix of any of them, so no abbreviation matches either
Options == {"--help", "--ingest", "--list", "--recalc", "--test", "--report",
            "--build", "--drive_threshold", "--correlation_cutoff"}

\* fractions of drives asked for with --threshold
Fractions == {<<1, 2>>, <<7, 10>>}

\* the tables the schema declares
Tables == {"drives", "features", "feature_drive_counts", "feature_frequencies"}

-----------------------------------------------------------------------------
(* Helpers *)

Max(S) == CHOOSE x \in S : \A y \in S : y <= x

\* the rowid sqlite gives a row inserted with a NULL INTEGER PRIMARY KEY
NextRowid(ids) == IF ids = {} THEN 1 ELSE Max(ids) + 1

\* a comparison with the whole text in place of its start
startswith_whole(s, prefix) == s = prefix

startswith(s, prefix) ==
    /\ Len(s) >= Len(prefix)
    /\ SubSeq(s, 1, Len(prefix)) = prefix

RECURSIVE GCD(_, _)
GCD(a, b) == IF b = 0 THEN a ELSE GCD(b, a % b)

\* fractions <<n, d>> in lowest terms
Frac(n, d) == <<n \div GCD(n, d), d \div GCD(n, d)>>

Zero == <<0, 1>>

FracAdd(p, q) == Frac(p[1] * q[2] + q[1] * p[2], p[2] * q[2])

EmptyDb == [drives |-> {}, features |-> {}, feature_drive_counts |-> EmptyBag,
            feature_frequencies |-> {}]

-----------------------------------------------------------------------------
(* the connection, get_driveid, get_featureid *)

\* the connection in autocommit mode: every statement lands on disk at once
on_disk_autocommit(db_committed, db_conn) == db_conn

\* conn = sqlite3.connect('cda2_tool.db'): the connection is in the default
\* transaction mode, so what is on disk after a statement ran on the
\* connection is what was on disk before
on_disk(db_committed, db_conn) == db_committed


\* a drives table without the UNIQUE constraint on drivename
drivename_conflict_unchecked(db, drivename) == FALSE

\* INSERT INTO drives (driveid,drivename) VALUES (NULL,?) violates
\* drivename UNIQUE when the name is already there
drivename_conflict(db, drivename) ==
    \E d \in db.drives : d.drivename = drivename

\* c.lastrowid of the insert
get_driveid(db, drivename) == NextRowid({d.driveid : d \in db.drives})

insert_drive(db, drivename) ==
    [db EXCEPT !.drives = @ \cup {[driveid |-> get_driveid(db, drivename),
                                   drivename |-> drivename]}]

\* a table that takes a second row for a text it has
insert_feature_always(db, feature) ==
    [db EXCEPT !.features =
         @ \cup {[featureid |-> NextRowid({f.featureid : f \in db.features}),
                  feature |-> feature]}]

\* INSERT OR IGNORE INTO features (featureid,feature) VALUES (NULL,?)
insert_or_ignore_feature(db, feature) ==
    IF \E f \in db.features : f.feature = feature
    THEN db
    ELSE [db EXCEPT !.features =
              @ \cup {[featureid |-> NextRowid({f.featureid : f \in db.features}),
                       feature |-> feature]}]

\* the id of the row inserted last, whatever the text
select_featureid_lastrow(db, feature) == Max({f.featureid : f \in db.features})

\* SELECT featureid from features where feature=? ; fetchone()[0]
select_featureid(db, feature) ==
    (CHOOSE f \in db.features : f.feature = feature).featureid

\* get_featureid(feature), on the database the insert leaves
get_featureid(db, feature) ==
    select_featureid(insert_or_ignore_feature(db, feature), feature)

\* INSERT INTO feature_drive_counts (driveid,feature_type,featureid,count)
insert_count(db, d, feature_type, featureid, count) ==
    [db EXCEPT !.feature_drive_counts =
         @ (+) SetToBag({[driveid |-> d, feature_type |-> feature_type,
                          featureid |-> featureid, count |-> count]})]

\* DELETE FROM feature_drive_counts where driveid=?
delete_counts(db, d) ==
    [db EXCEPT !.feature_drive_counts =
         [r \in {r \in DOMAIN @ : r.driveid # d} |-> @[r]]]

-----------------------------------------------------------------------------
(* get_featureid in programs that run at the same time *)

\* Every program has its own connection to the file cda2_tool.db.  sqlite
\* lets one connection at a time hold a write transaction: the first INSERT
\* of a transaction takes the write lock, commit and the end of the program
\* release it, and an INSERT that finds the lock taken waits and, after the
\* connection's timeout, raises sqlite3.OperationalError.

\* a program that has not touched the database yet
Fresh == [at |-> "ready", open |-> FALSE, view |-> EmptyDb, feature |-> <<>>,
          returned |-> {}, calls |-> 0]

NoCallers == [i \in 1..NumCallers |-> Fresh]

\* another program holds the write lock
locked_out(cs, i) == \E j \in DOMAIN cs : j # i /\ cs[j].open

\* c.execute("INSERT OR IGNORE INTO features ...") in program i
caller_insert(i, feature) ==
    /\ callers[i].at = "ready"
    /\ callers[i].calls < MaxCalls
    /\ ~locked_out(callers, i)
    /\ callers' = [callers EXCEPT ![i] =
           [@ EXCEPT !.at = "inserted",
                     !.open = TRUE,
                     !.feature = feature,
                     !.calls = @ + 1,
                     !.view = insert_or_ignore_feature(
                                  IF callers[i].open THEN callers[i].view
                                  ELSE committed, feature)]]
    /\ UNCHANGED <<committed, conn, pc, driveid, pe_header_counts, nread, entries,
                   resolved, last, before, result>>

\* the same statement while another program holds the write lock: it raises
\* after the timeout and the program ends
caller_locked(i, feature) ==
    /\ callers[i].at = "ready"
    /\ callers[i].calls < MaxCalls
    /\ locked_out(callers, i)
    /\ callers' = [callers EXCEPT ![i] = [Fresh EXCEPT !.at = "locked"]]
    /\ UNCHANGED <<committed, conn, pc, driveid, pe_header_counts, nread, entries,
                   resolved, last, before, result>>

\* c.execute("SELECT featureid ..."); return c.fetchone()[0] in program i
caller_select(i) ==
    /\ callers[i].at = "inserted"
    /\ callers' = [callers EXCEPT ![i] =
           [@ EXCEPT !.at = "ready",
                     !.returned = @ \cup {<<callers[i].feature,
                                            select_featureid(callers[i].view,
                                                             callers[i].feature)>>}]]
    /\ UNCHANGED <<committed, conn, pc, driveid, pe_header_counts, nread, entries,
                   resolved, last, before, result>>

\* conn.commit() in program i
caller_commit(i) ==
    /\ callers[i].at = "ready"
    /\ callers[i].open
    /\ committed' = [committed EXCEPT !.features = callers[i].view.features]
    /\ callers' = [callers EXCEPT ![i] = [@ EXCEPT !.open = FALSE, !.calls = 0]]
    /\ UNCHANGED <<conn, pc, driveid, pe_header_counts, nread, entries,
                   resolved, last, before, result>>

\* program i ends without a commit, or starts again after it ended: what it
\* wrote and what it was returned are gone
caller_exit(i) ==
    /\ callers[i].open \/ callers[i].at = "locked"
    /\ callers' = [callers EXCEPT ![i] = Fresh]
    /\ UNCHANGED <<committed, conn, pc, driveid, pe_header_counts, nread, entries,
                   resolved, last, before, result>>

NextConc ==
    \/ \E i \in 1..NumCallers, feature \in Texts : caller_insert(i, feature)
    \/ \E i \in 1..NumCallers, feature \in Texts : caller_locked(i, feature)
    \/ \E i \in 1..NumCallers : caller_select(i)
    \/ \E i \in 1..NumCallers : caller_commit(i)
    \/ \E i \in 1..NumCallers : caller_exit(i)

-----------------------------------------------------------------------------
(* ingest *)

\* `again` marks a rebuild that started right after a rebuild that succeeded
Started(op, arg) == [op |-> op, status |-> "running", arg |-> arg,
                     again |-> op = "build" /\ last.op = "build" /\ last.status = "ok"]

Ended(status) == [last EXCEPT !.status = status]

\* br = BulkReport(report); driveid = get_driveid(br.image_filename());
\* DELETE FROM feature_drive_counts where driveid=?
ingest_begin(drivename) ==
    /\ pc = "idle"
    /\ before' = committed
    /\ result' = <<>>
    /\ nread' = 0
    /\ entries' = <<>>
    /\ UNCHANGED callers
    /\ pe_header_counts' = <<>>
    /\ resolved' = {}
    /\ IF drivename_conflict(conn, drivename)
       THEN \* sqlite3.IntegrityError leaves ingest and the program
            /\ last' = [Started("ingest", drivename) EXCEPT !.status = "failed"]
            /\ conn' = committed
            /\ UNCHANGED <<committed, pc, driveid>>
       ELSE /\ driveid' = get_driveid(conn, drivename)
            /\ conn' = delete_counts(insert_drive(conn, drivename),
                                     get_driveid(conn, drivename))
            /\ pc' = "search"
            /\ last' = Started("ingest", drivename)
            /\ committed' = on_disk(committed, conn')

\* one entry of br.read_histogram_entries("url_searches.txt")
ingest_search(search, count) ==
    /\ entries' = Append(entries, [kind |-> "search", text |-> search, count |-> count])
    /\ UNCHANGED callers
    /\ pc = "search"
    /\ nread < MaxEntries
    /\ nread' = nread + 1
    /\ IF startswith(search, CachePrefix)
       THEN UNCHANGED <<conn, resolved>>
       ELSE /\ conn' = insert_count(insert_or_ignore_feature(conn, search), driveid,
                                    SEARCH_TYPE, get_featureid(conn, search), count)
            /\ resolved' = resolved \cup {<<search, get_featureid(conn, search)>>}
    /\ committed' = on_disk(committed, conn')
    /\ UNCHANGED <<pc, driveid, pe_header_counts, last, before, result>>

\* one entry of br.read_histogram_entries("email_histogram.txt")
ingest_email(email, count) ==
    /\ entries' = Append(entries, [kind |-> "email", text |-> email, count |-> count])
    /\ UNCHANGED callers
    /\ pc \in {"search", "email"}
    /\ nread < MaxEntries
    /\ nread' = nread + 1
    /\ pc' = "email"
    /\ conn' = insert_count(insert_or_ignore_feature(conn, email), driveid,
                            EMAIL_TYPE, get_featureid(conn, email), count)
    /\ resolved' = resolved \cup {<<email, get_featureid(conn, email)>>}
    /\ committed' = on_disk(committed, conn')
    /\ UNCHANGED <<driveid, pe_header_counts, last, before, result>>

\* one entry of br.read_features("winpe.txt"): pe_header_counts[featureid] += 1
ingest_winpe(feature) ==
    /\ entries' = Append(entries, [kind |-> "winpe", text |-> feature, count |-> 1])
    /\ UNCHANGED callers
    /\ pc \in {"search", "email", "winpe"}
    /\ nread < MaxEntries
    /\ nread' = nread + 1
    /\ pc' = "winpe"
    /\ conn' = insert_or_ignore_feature(conn, feature)
    /\ resolved' = resolved \cup {<<feature, get_featureid(conn, feature)>>}
    /\ LET featureid == get_featureid(conn, feature)
       IN pe_header_counts' =
              IF featureid \in DOMAIN pe_header_counts
              THEN [pe_header_counts EXCEPT ![featureid] = @ + 1]
              ELSE [f \in DOMAIN pe_header_counts \cup {featureid} |->
                        IF f = featureid THEN 1 ELSE pe_header_counts[f]]
    /\ committed' = on_disk(committed, conn')
    /\ UNCHANGED <<driveid, last, before, result>>

\* a flush that also counts the drive into every frequency row
flush_pe_header_counts_and_frequencies(db, d, tally) ==
    LET fdc == db.feature_drive_counts
                 (+) SetToBag({[driveid |-> d, feature_type |-> WINPE_TYPE,
                                featureid |-> f, count |-> tally[f]]
                               : f \in DOMAIN tally})
    IN [db EXCEPT !.feature_drive_counts = fdc,
                  !.feature_frequencies =
                      {[id |-> r.id, featureid |-> r.featureid,
                        feature_type |-> r.feature_type,
                        drivecount |-> r.drivecount + 1,
                        featurecount |-> r.featurecount] : r \in @}]

\* for (featureid,count) in pe_header_counts.items(): INSERT ...
flush_pe_header_counts(db, d, tally) ==
    [db EXCEPT !.feature_drive_counts =
         @ (+) SetToBag({[driveid |-> d, feature_type |-> WINPE_TYPE,
                          featureid |-> f, count |-> tally[f]] : f \in DOMAIN tally})]

\* the streams are exhausted: flush the tally, conn.commit()
ingest_commit ==
    /\ pc \in {"search", "email", "winpe"}
    /\ conn' = flush_pe_header_counts(conn, driveid, pe_header_counts)
    /\ committed' = conn'
    /\ pc' = "idle"
    /\ last' = Ended("ok")
    /\ driveid' = 0
    /\ pe_header_counts' = <<>>
    /\ nread' = 0
    /\ entries' = <<>>
    /\ UNCHANGED callers
    /\ UNCHANGED <<resolved, before, result>>

\* the report reader or the store raises: nothing catches it in ingest or in
\* __main__, the program ends and the open transaction is discarded
ingest_fail ==
    /\ pc \in {"search", "email", "winpe"}
    /\ conn' = committed
    /\ pc' = "idle"
    /\ last' = Ended("failed")
    /\ driveid' = 0
    /\ pe_header_counts' = <<>>
    /\ nread' = 0
    /\ entries' = <<>>
    /\ UNCHANGED callers
    /\ UNCHANGED <<committed, resolved, before, result>>

-----------------------------------------------------------------------------
(* build_feature_frequences *)

\* the rows of a table (a bag) that satisfy a where clause, with their copies
RECURSIVE count_rows(_, _)
count_rows(rows, bag) ==
    IF rows = {} THEN 0
    ELSE LET r == CHOOSE r \in rows : TRUE
         IN CopiesIn(r, bag) + count_rows(rows \ {r}, bag)

\* sum(count) over those rows
RECURSIVE sum_count(_, _)
sum_count(rows, bag) ==
    IF rows = {} THEN 0
    ELSE LET r == CHOOSE r \in rows : TRUE
         IN r.count * CopiesIn(r, bag) + sum_count(rows \ {r}, bag)

\* the groups of "group by featureid,feature_type"
groups(fdc) == {<<r.featureid, r.feature_type>> : r \in BagToSet(fdc)}

group_rows(fdc, g) ==
    {r \in BagToSet(fdc) : r.featureid = g[1] /\ r.feature_type = g[2]}

\* sqlite emits the groups in the order of the group by terms
group_less(g, h) == g[1] < h[1] \/ (g[1] = h[1] /\ g[2] < h[2])

group_rank(fdc, g) == Cardinality({h \in groups(fdc) : group_less(h, g)})

\* a rebuild that forgets to clear the table
delete_feature_frequencies_skipped(db) == db

\* delete from feature_frequencies
delete_feature_frequencies(db) == [db EXCEPT !.feature_frequencies = {}]

\* insert into feature_frequencies (featureid,feature_type,drivecount,featurecount)
\*   select featureid,feature_type,count(*),sum(count)
\*   from feature_drive_counts group by featureid,feature_type
insert_feature_frequencies(db) ==
    LET fdc == db.feature_drive_counts
        first == NextRowid({r.id : r \in db.feature_frequencies})
    IN [db EXCEPT !.feature_frequencies =
            @ \cup {[id |-> first + group_rank(fdc, g),
                     featureid |-> g[1],
                     feature_type |-> g[2],
                     drivecount |-> count_rows(group_rows(fdc, g), fdc),
                     featurecount |-> sum_count(group_rows(fdc, g), fdc)]
                    : g \in groups(fdc)}]

build_delete ==
    /\ pc = "idle"
    /\ before' = committed
    /\ result' = <<>>
    /\ resolved' = {}
    /\ conn' = delete_feature_frequencies(conn)
    /\ pc' = "build"
    /\ last' = Started("build", 0)
    /\ committed' = on_disk(committed, conn')
    /\ UNCHANGED <<driveid, pe_header_counts, nread, entries, callers>>

\* the insert, then conn.commit()
build_feature_frequences ==
    /\ pc = "build"
    /\ conn' = insert_feature_frequencies(conn)
    /\ committed' = conn'
    /\ pc' = "idle"
    /\ last' = Ended("ok")
    /\ UNCHANGED <<driveid, pe_header_counts, nread, entries, callers, resolved, before, result>>

\* a rebuild that commits on its way out of a failed insert
build_fail_committing ==
    /\ pc = "build"
    /\ committed' = conn
    /\ pc' = "idle"
    /\ last' = Ended("failed")
    /\ UNCHANGED <<conn, driveid, pe_header_counts, nread, entries, callers, resolved, before, result>>

\* the store raises on the insert: the program ends, the delete is discarded
build_fail ==
    /\ pc = "build"
    /\ conn' = committed
    /\ pc' = "idle"
    /\ last' = Ended("failed")
    /\ UNCHANGED <<committed, driveid, pe_header_counts, nread, entries, callers, resolved, before, result>>

-----------------------------------------------------------------------------
(* correlate_for_type *)

\* the rows of the three-table join, as <<C, F, R>>:
\* feature_drive_counts as C JOIN features as F ON C.featureid = F.rowid
\* JOIN feature_frequencies as R ON C.featureid = R.featureid
\* where C.driveid=? and C.feature_type=?
join_rows(db, d, feature_type) ==
    {<<C, F, R>> \in BagToSet(db.feature_drive_counts) \X db.features
                     \X db.feature_frequencies :
        /\ C.featureid = F.featureid
        /\ C.featureid = R.featureid
        /\ C.driveid = d
        /\ C.feature_type = feature_type}

\* a result line (R.drivecount, C.featureid, feature)
line_of(j) == <<j[3].drivecount, j[1].featureid, j[2].feature>>

\* how many times the join yields a line
RECURSIVE line_copies(_, _, _)
line_copies(js, line, fdc) ==
    IF js = {} THEN 0
    ELSE LET j == CHOOSE j \in js : TRUE
         IN (IF line_of(j) = line THEN CopiesIn(j[1], fdc) ELSE 0)
            + line_copies(js \ {j}, line, fdc)

\* the lines compared the wrong way round
line_less_descending(a, b) == a[1] > b[1] \/ (a[1] = b[1] /\ a[2] > b[2])

\* tuple order of the lines; the feature text follows from the featureid
line_less(a, b) == a[1] < b[1] \/ (a[1] = b[1] /\ a[2] < b[2])

Repeat(x, n) == [i \in 1..n |-> x]

\* sorted(res), for the lines of `todo`
RECURSIVE sorted(_, _, _)
sorted(todo, js, fdc) ==
    IF todo = {} THEN <<>>
    ELSE LET m == CHOOSE m \in todo : \A o \in todo : o = m \/ line_less(m, o)
         IN Repeat(m, line_copies(js, m, fdc)) \o sorted(todo \ {m}, js, fdc)

\* filter(lambda r:r[0]>1, ...)
keep_line(r) == r[1] > 1

\* res = filter(lambda r:r[0]>1,sorted(res))
filtered_sorted(db, d, feature_type) ==
    LET js == join_rows(db, d, feature_type)
    IN SelectSeq(sorted({line_of(j) : j \in js}, js, db.feature_drive_counts),
                 keep_line)

\* select driveid from feature_drive_counts where featureid=? and driveid!=?
also_on(db, featureid, d) ==
    {r \in BagToSet(db.feature_drive_counts) :
        r.featureid = featureid /\ r.driveid # d}

\* the rows of that select that name drive o
also_on_drive(db, featureid, d, o) ==
    count_rows({r \in also_on(db, featureid, d) : r.driveid = o},
               db.feature_drive_counts)

RECURSIVE add_times(_, _, _)
add_times(p, q, n) == IF n = 0 THEN p ELSE add_times(FracAdd(p, q), q, n - 1)

\* the body of "for line in res" for one line:
\* coefs[driveid_] += 1.0/drivecount; contribs[driveid_].append(...)
process_line(db, d, line, acc) ==
    LET drivecount == line[1]
        featureid == line[2]
        found == {r.driveid : r \in also_on(db, featureid, d)}
        seen == DOMAIN acc.coefs \cup found
    IN [coefs |->
            [o \in seen |->
                add_times(IF o \in DOMAIN acc.coefs THEN acc.coefs[o] ELSE Zero,
                          Frac(1, drivecount),
                          also_on_drive(db, featureid, d, o))],
        contribs |->
            [o \in seen |->
                (IF o \in DOMAIN acc.contribs THEN acc.contribs[o] ELSE <<>>)
                \o Repeat(<<drivecount, featureid>>,
                          also_on_drive(db, featureid, d, o))],
        walked |-> Append(acc.walked, line)]

\* if drivecount > args.drive_threshold: break
stop_after(line, drive_threshold) == line[1] > drive_threshold

RECURSIVE walk(_, _, _, _, _, _)
walk(db, d, res, i, drive_threshold, acc) ==
    IF i > Len(res) THEN acc
    ELSE LET done == process_line(db, d, res[i], acc)
         IN IF stop_after(res[i], drive_threshold) THEN done
            ELSE walk(db, d, res, i + 1, drive_threshold, done)

correlate_for_type(db, d, feature_type, drive_threshold) ==
    walk(db, d, filtered_sorted(db, d, feature_type), 1, drive_threshold,
         [coefs |-> <<>>, contribs |-> <<>>, walked |-> <<>>])

\* a correlation that first brings the frequency table up to date
correlate_rebuilding(d, feature_type, drive_threshold) ==
    /\ pc = "idle"
    /\ before' = committed
    /\ conn' = insert_feature_frequencies(delete_feature_frequencies(conn))
    /\ committed' = conn'
    /\ result' = [driveid |-> d, feature_type |-> feature_type,
                  drive_threshold |-> drive_threshold,
                  res |-> filtered_sorted(conn', d, feature_type)]
                 @@ correlate_for_type(conn', d, feature_type, drive_threshold)
    /\ resolved' = {}
    /\ last' = [Started("correlate", d) EXCEPT !.status = "ok"]
    /\ UNCHANGED <<pc, driveid, pe_header_counts, nread, entries, callers>>

\* a call of correlate_for_type(driveid, feature_type) with args.drive_threshold set
correlate(d, feature_type, drive_threshold) ==
    /\ pc = "idle"
    /\ before' = committed
    /\ result' = [driveid |-> d, feature_type |-> feature_type,
                  drive_threshold |-> drive_threshold,
                  res |-> filtered_sorted(conn, d, feature_type)]
                 @@ correlate_for_type(conn, d, feature_type, drive_threshold)
    /\ resolved' = {}
    /\ last' = [Started("correlate", d) EXCEPT !.status = "ok"]
    /\ UNCHANGED <<committed, conn, pc, driveid, pe_header_counts, nread, entries, callers>>

-----------------------------------------------------------------------------
(* make_report and the --build branch of __main__ *)

\* what evaluating a global name gives
lookup(name) == IF name \in ModuleNames THEN name ELSE "NameError"

\* what executing a statement on a table gives
table(name) == IF name \in Tables THEN name ELSE "OperationalError"

\* build_feature_frequences() as one call: delete, insert, commit
rebuilt(db) == insert_feature_frequencies(delete_feature_frequencies(db))

\* make_report(driveid): the count query goes through the global name c and
\* the table feature_frequences
make_report(d, drive_threshold) ==
    /\ pc = "idle"
    /\ before' = committed
    /\ resolved' = {}
    /\ IF lookup("c") = "NameError" \/ table("feature_frequences") = "OperationalError"
       THEN /\ last' = [Started("report", d) EXCEPT !.status = "failed"]
            /\ result' = [rebuilds |-> 0, correlations |-> <<>>]
            /\ conn' = committed
            /\ UNCHANGED committed
       ELSE LET empty == conn.feature_frequencies = {}
                db == IF empty THEN rebuilt(conn) ELSE conn
            IN /\ last' = [Started("report", d) EXCEPT !.status = "ok"]
               /\ conn' = db
               /\ committed' = IF empty THEN db ELSE committed
               /\ result' =
                    [rebuilds |-> IF empty THEN 1 ELSE 0,
                     correlations |->
                        <<correlate_for_type(db, d, EMAIL_TYPE, drive_threshold),
                          correlate_for_type(db, d, SEARCH_TYPE, drive_threshold),
                          correlate_for_type(db, d, WINPE_TYPE, drive_threshold)>>]
    /\ UNCHANGED <<pc, driveid, pe_header_counts, nread, entries, callers>>

\* if args.build: build_feature_frequencies()
main_build ==
    /\ pc = "idle"
    /\ before' = committed
    /\ resolved' = {}
    /\ result' = <<>>
    /\ IF lookup("build_feature_frequencies") = "build_feature_frequences"
       THEN /\ conn' = rebuilt(conn)
            /\ committed' = conn'
            /\ last' = [Started("main_build", 0) EXCEPT !.status = "ok"]
       ELSE /\ conn' = committed
            /\ last' = [Started("main_build", 0) EXCEPT !.status = "failed"]
            /\ UNCHANGED committed
    /\ UNCHANGED <<pc, driveid, pe_header_counts, nread, entries, callers>>

\* parser.parse_args() on a command line with one option: an option the
\* parser does not know ends the program with an error
parse_args(option) == IF option \in Options THEN option ELSE "SystemExit"

\* the program run with --makestop --threshold fraction: parse_args() ends it
\* before any operation starts
main_makestop(fraction) ==
    /\ pc = "idle"
    /\ parse_args("--makestop") = "SystemExit" \/ parse_args("--threshold") = "SystemExit"
    /\ before' = committed
    /\ resolved' = {}
    /\ result' = [fraction |-> fraction, stoplist |-> {}, written |-> FALSE]
    /\ conn' = committed
    /\ last' = [Started("makestop", 0) EXCEPT !.status = "failed"]
    /\ UNCHANGED <<committed, pc, driveid, pe_header_counts, nread, entries, callers>>

-----------------------------------------------------------------------------

Init ==
    /\ committed = EmptyDb
    /\ conn = EmptyDb
    /\ pc = "idle"
    /\ driveid = 0
    /\ pe_header_counts = <<>>
    /\ nread = 0
    /\ entries = <<>>
    /\ callers = NoCallers
    /\ resolved = {}
    /\ last = [op |-> "none", status |-> "ok", arg |-> 0, again |-> FALSE]
    /\ before = EmptyDb
    /\ result = <<>>

Next ==
    \/ \E drivename \in DriveNames : ingest_begin(drivename)
    \/ \E search \in Texts, count \in Counts : ingest_search(search, count)
    \/ \E email \in Texts, count \in Counts : ingest_email(email, count)
    \/ \E feature \in Texts : ingest_winpe(feature)
    \/ ingest_commit
    \/ ingest_fail
    \/ build_delete
    \/ build_feature_frequences
    \/ build_fail
    \/ \E d \in {x.driveid : x \in conn.drives}, feature_type \in FeatureTypes,
          drive_threshold \in Thresholds :
            correlate(d, feature_type, drive_threshold)
    \/ \E d \in {x.driveid : x \in conn.drives}, drive_threshold \in Thresholds :
            make_report(d, drive_threshold)
    \/ main_build
    \/ \E fraction \in Fractions : main_makestop(fraction)

Spec == Init /\ [][Next]_vars

-----------------------------------------------------------------------------
(* Correlations on databases with more drives *)

\* the features recorded: b"x" as 1, b"cache:q" as 2
corr_features == {[featureid |-> 1, feature |-> <<120>>],
                  [featureid |-> 2, feature |-> CachePrefix \o <<113>>]}

\* the counts a drive may hold: x and cache:q as email, x as search
corr_rows ==
    {[driveid |-> d, feature_type |-> k[1], featureid |-> k[2], count |-> 1] :
        d \in 1..CorrDrives,
        k \in {<<EMAIL_TYPE, 1>>, <<EMAIL_TYPE, 2>>, <<SEARCH_TYPE, 1>>}}

\* what ingests of CorrDrives reports and a rebuild leave behind
corr_db(rows) ==
    rebuilt([drives |-> {[driveid |-> d, drivename |-> d] : d \in 1..CorrDrives},
             features |-> {f \in corr_features :
                             \E r \in rows : r.featureid = f.featureid},
             feature_drive_counts |-> SetToBag(rows),
             feature_frequencies |-> {}])

InitCorr ==
    /\ \E rows \in SUBSET corr_rows :
          /\ (\E r \in rows : r.featureid = 2) => (\E r \in rows : r.featureid = 1)
          /\ committed = corr_db(rows)
          /\ conn = corr_db(rows)
          /\ before = corr_db(rows)
    /\ pc = "idle"
    /\ driveid = 0
    /\ pe_header_counts = <<>>
    /\ nread = 0
    /\ entries = <<>>
    /\ callers = NoCallers
    /\ resolved = {}
    /\ last = [op |-> "build", status |-> "ok", arg |-> 0, again |-> FALSE]
    /\ result = <<>>

NextCorr ==
    \E d \in {x.driveid : x \in conn.drives}, feature_type \in FeatureTypes,
       drive_threshold \in Thresholds :
         correlate(d, feature_type, drive_threshold)

SpecCorr == InitCorr /\ [][NextCorr]_vars

\* programs resolving features at the same time, on an empty database
SpecConc == Init /\ [][NextConc]_vars

-----------------------------------------------------------------------------
(* Properties *)

Ingesting == pc \in {"search", "email", "winpe"}

ended(op) == pc = "idle" /\ last.op = op

\* the feature_drive_counts rows of the drive with a name
rows_of_name(db, drivename) ==
    LET ids == {d.driveid : d \in {d \in db.drives : d.drivename = drivename}}
        fdc == db.feature_drive_counts
    IN [r \in {r \in DOMAIN fdc : r.driveid \in ids} |-> fdc[r]]

\* C1: ingesting a report whose drive is already recorded completes and leaves
\* the rows of that drive as they were (re-ingest is idempotent).
C1_ReingestCompletesUnchanged ==
    (ended("ingest") /\ drivename_conflict(before, last.arg))
        => /\ last.status = "ok"
           /\ rows_of_name(committed, last.arg) = rows_of_name(before, last.arg)

\* the drives that have a recorded count in a group
drives_holding(fdc, g) == {r.driveid : r \in group_rows(fdc, g)}

\* C2: after a rebuild, every (feature, type) of feature_drive_counts has a
\* frequency row whose drivecount is the number of distinct drives that hold
\* it and whose featurecount is the sum of their counts.
C2_FrequenciesCountDistinctDrives ==
    (ended("build") /\ last.status = "ok")
        => \A g \in groups(committed.feature_drive_counts) :
             \E r \in committed.feature_frequencies :
                /\ r.featureid = g[1]
                /\ r.feature_type = g[2]
                /\ r.drivecount =
                     Cardinality(drives_holding(committed.feature_drive_counts, g))
                /\ r.featurecount =
                     sum_count(group_rows(committed.feature_drive_counts, g),
                               committed.feature_drive_counts)

\* C3: in a correlation, a feature whose drive_count exceeds the cutoff adds
\* nothing to any contribution list, and no line is walked after such a line.
C3_OverCutoffAddsNothing ==
    ended("correlate")
        => /\ \A o \in DOMAIN result.contribs :
                \A k \in 1..Len(result.contribs[o]) :
                    result.contribs[o][k][1] <= result.drive_threshold
           /\ \A i \in 1..Len(result.walked) :
                \A j \in 1..Len(result.walked) :
                    (i < j) => result.walked[i][1] <= result.drive_threshold

\* the feature_frequencies table is what a rebuild would produce now
fresh(db) == db.feature_frequencies = rebuilt(db).feature_frequencies

holds(db, d, feature_type, featureid) ==
    \E r \in BagToSet(db.feature_drive_counts) :
        r.driveid = d /\ r.feature_type = feature_type /\ r.featureid = featureid

\* the drive_count of (feature, type) in feature_frequencies, 0 without a row
drive_count(db, featureid, feature_type) ==
    LET rs == {r \in db.feature_frequencies :
                  r.featureid = featureid /\ r.feature_type = feature_type}
    IN IF rs = {} THEN 0 ELSE (CHOOSE r \in rs : TRUE).drivecount

\* the features two drives share under a type, rare enough to count
shared_rare(db, d, o, feature_type, drive_threshold) ==
    {f \in {x.featureid : x \in db.features} :
        /\ holds(db, d, feature_type, f)
        /\ holds(db, o, feature_type, f)
        /\ drive_count(db, f, feature_type) > 1
        /\ drive_count(db, f, feature_type) <= drive_threshold}

RECURSIVE sum_weights(_, _, _)
sum_weights(fs, db, feature_type) ==
    IF fs = {} THEN Zero
    ELSE LET f == CHOOSE f \in fs : TRUE
         IN FracAdd(Frac(1, drive_count(db, f, feature_type)),
                    sum_weights(fs \ {f}, db, feature_type))

score(coefs, o) == IF o \in DOMAIN coefs THEN coefs[o] ELSE Zero

\* C4: after a rebuild, a correlation gives every other drive the sum of
\* 1/drive_count over the features of the type both drives hold with
\* 1 < drive_count <= cutoff, each counted once, and lists no other drive.
C4_ScoreIsSumOverSharedRare ==
    (ended("correlate") /\ fresh(conn))
        => LET expected(o) ==
                   sum_weights(shared_rare(conn, result.driveid, o,
                                           result.feature_type,
                                           result.drive_threshold),
                               conn, result.feature_type)
           IN /\ \A o \in {x.driveid : x \in conn.drives} \ {result.driveid} :
                    score(result.coefs, o) = expected(o)
              /\ \A o \in DOMAIN result.coefs : result.coefs[o] # Zero

\* the database with only the rows of one feature type in the two count tables
only_type(db, feature_type) ==
    [db EXCEPT
        !.feature_drive_counts =
            [r \in {r \in DOMAIN @ : r.feature_type = feature_type} |-> @[r]],
        !.feature_frequencies = {r \in @ : r.feature_type = feature_type}]

pairs(features) == {<<f.feature, f.featureid>> : f \in features}

one_to_one(ps) ==
    \A p \in ps : \A q \in ps : (p[1] = q[1]) <=> (p[2] = q[2])

\* C6: the ids get_featureid returned and the rows of the features table
\* pair texts and ids one to one; a committed row never changes, and a row of
\* the features table stays as it is while the program runs on.
C6_FeatureResolutionBijection ==
    /\ [](/\ one_to_one(pairs(conn.features) \cup resolved)
          /\ one_to_one(pairs(committed.features)))
    /\ [][/\ committed.features \subseteq committed'.features
          /\ (last'.status # "failed") => conn.features \subseteq conn'.features]_vars

\* a text is resolved that was recorded before, next to another text
C6_Witness ==
    /\ Ingesting
    /\ \E p \in resolved : p \in pairs(committed.features)
    /\ \E p \in resolved : p \notin pairs(committed.features)

\* C7: while an ingest runs and after it failed, the committed database is
\* what it was when the ingest started; after it succeeded, what the
\* connection wrote is committed as a whole and the drives, features and
\* counts committed earlier are still there.
C7_IngestAtomic ==
    /\ Ingesting => committed = before
    /\ (ended("ingest") /\ last.status = "failed") => committed = before
    /\ (ended("ingest") /\ last.status = "ok")
         => /\ committed = conn
            /\ before.drives \subseteq committed.drives
            /\ before.features \subseteq committed.features
            /\ \E d \in committed.drives \ before.drives :
                 /\ d.drivename = last.arg
                 /\ delete_counts(committed, d.driveid).feature_drive_counts
                      = before.feature_drive_counts

\* an ingest failed after it had written rows of a second drive
C7_Witness ==
    /\ ended("ingest")
    /\ last.status = "failed"
    /\ resolved # {}
    /\ committed.feature_drive_counts # EmptyBag

\* C8: a report rebuilds once exactly when the frequency table was empty at
\* its start, and then correlates once for each of the three feature types.
C8_ReportRebuildsIfEmptyThenCorrelates ==
    ended("report")
        => /\ last.status = "ok"
           /\ (result.rebuilds = 1) <=> (before.feature_frequencies = {})
           /\ (result.rebuilds = 0) <=> (before.feature_frequencies # {})
           /\ Len(result.correlations) = 3

\* C9: after the --build operation ends, feature_frequencies reflects all
\* committed feature_drive_counts rows.
C9_BuildOptionRefreshes ==
    (ended("main_build") /\ committed.feature_drive_counts # EmptyBag)
        => /\ last.status = "ok"
           /\ fresh(committed)

\* C10: a rebuild that follows a rebuild, with nothing in between, leaves the
\* feature_frequencies table as the first one left it.
C10_RebuildIdempotent ==
    (ended("build") /\ last.status = "ok" /\ last.again)
        => committed.feature_frequencies = before.feature_frequencies

\* a second rebuild in a row ended, on a table with rows
C10_Witness ==
    /\ ended("build")
    /\ last.status = "ok"
    /\ last.again
    /\ Cardinality(committed.feature_frequencies) > 1

\* C13: a correlation changes no table: the committed database and the
\* connection's view are what they were when it started.
C13_CorrelationReadsOnly ==
    ended("correlate") => (committed = before /\ conn = before)

\* a correlation ended that scored another drive
C13_Witness ==
    /\ ended("correlate")
    /\ DOMAIN result.coefs # {}
    /\ committed.feature_frequencies # {}

names_unique(drives) ==
    \A a \in drives : \A b \in drives : (a.drivename = b.drivename) => a = b

\* C14: ingesting a report whose drive name is already recorded ends in an
\* error with the committed database unchanged, and no two drive records
\* ever carry the same name.
C14_DuplicateNameRejected ==
    /\ (ended("ingest") /\ drivename_conflict(before, last.arg))
         => (last.status = "failed" /\ committed = before /\ conn = before)
    /\ names_unique(committed.drives)
    /\ names_unique(conn.drives)

\* an ingest of a recorded drive that has counts ended
C14_Witness ==
    /\ ended("ingest")
    /\ drivename_conflict(before, last.arg)
    /\ rows_of_name(before, last.arg) # EmptyBag
    /\ Cardinality(committed.drives) > 1

\* C15: feature_drive_counts holds at most one row per (drive, feature type,
\* feature).
C15_OneRowPerDriveTypeFeature ==
    \A r \in BagToSet(committed.feature_drive_counts) :
        /\ CopiesIn(r, committed.feature_drive_counts) = 1
        /\ \A q \in BagToSet(committed.feature_drive_counts) :
              (q.driveid = r.driveid /\ q.feature_type = r.feature_type
                   /\ q.featureid = r.featureid) => q = r

\* C16: the frequency table changes through build_feature_frequences alone:
\* while an ingest runs, and after any operation other than a rebuild, it is
\* what it was when the operation started.
C16_IngestLeavesFrequencies ==
    /\ Ingesting => conn.feature_frequencies = before.feature_frequencies
    /\ (pc = "idle" /\ last.op # "build")
         => /\ committed.feature_frequencies = before.feature_frequencies
            /\ conn.feature_frequencies = before.feature_frequencies

\* an ingest committed counts and left a table that a rebuild would change
C16_Witness ==
    /\ ended("ingest")
    /\ last.status = "ok"
    /\ committed.feature_frequencies # {}
    /\ ~fresh(committed)

\* C17: a rebuild commits its clear and its insert together: while it runs
\* and after it failed, the committed database is what it was at its start;
\* after it succeeded, the committed table is one grouping pass over the
\* feature_drive_counts rows committed at its start, which it left alone.
C17_RebuildAtomic ==
    /\ pc = "build" => committed = before
    /\ (ended("build") /\ last.status = "failed")
         => (committed = before /\ conn = before)
    /\ (ended("build") /\ last.status = "ok")
         => /\ committed.feature_frequencies = rebuilt(before).feature_frequencies
            /\ committed.feature_drive_counts = before.feature_drive_counts
            /\ committed = conn

\* a rebuild failed after its clear, on a table that had rows
C17_Witness ==
    /\ ended("build")
    /\ last.status = "failed"
    /\ committed.feature_frequencies # {}

\* drive_count ascending, equal drive_counts by featureid ascending
ascending(lines) ==
    \A i \in 1..Len(lines) : \A j \in 1..Len(lines) :
        (i < j) => \/ lines[i][1] < lines[j][1]
                   \/ (lines[i][1] = lines[j][1] /\ lines[i][2] <= lines[j][2])

in_seq(x, xs) == \E i \in 1..Len(xs) : xs[i] = x

\* C18: a correlation walks the lines in ascending order of drive_count,
\* ties by feature id, and every feature of the target drive under the type
\* with 1 < drive_count <= cutoff has its line walked.
C18_WalkAscendingSkipsNoEligible ==
    ended("correlate")
        => /\ ascending(result.res)
           /\ ascending(result.walked)
           /\ \A f \in conn.features :
                LET dc == drive_count(conn, f.featureid, result.feature_type)
                IN (/\ holds(conn, result.driveid, result.feature_type, f.featureid)
                    /\ dc > 1
                    /\ dc <= result.drive_threshold)
                   => in_seq(<<dc, f.featureid, f.feature>>, result.walked)

\* a correlation walked a feature within the cutoff and stopped at the
\* first of two lines over it
C18_Witness ==
    /\ ended("correlate")
    /\ Len(result.walked) > 1
    /\ Len(result.res) > Len(result.walked)
    /\ result.walked[1][1] <= result.drive_threshold
    /\ result.walked[Len(result.walked)][1] > result.drive_threshold

\* the features of a type on more than a fraction of the recorded drives
over_fraction(db, feature_type, fraction) ==
    {f.feature : f \in {f \in db.features :
        drive_count(db, f.featureid, feature_type) * fraction[2]
            > fraction[1] * Cardinality(db.drives)}}

\* C11: a stoplist run on fresh frequencies ends well and yields, for every
\* feature type, exactly the features whose drive_count divided by the number
\* of drives exceeds the fraction.
C11_StoplistIsOverFraction ==
    (/\ ended("makestop")
     /\ fresh(committed)
     /\ \E t \in FeatureTypes : over_fraction(committed, t, result.fraction) # {})
        => /\ last.status = "ok"
           /\ result.written
           /\ result.stoplist =
                UNION {over_fraction(committed, t, result.fraction) : t \in FeatureTypes}

\* the text begins with the bytes of "cache:"
is_cache(text) ==
    /\ Len(text) >= 6
    /\ <<text[1], text[2], text[3], text[4], text[5], text[6]>>
         = <<99, 97, 99, 104, 101, 58>>

\* the entries ingest is to record: all but search entries that begin "cache:"
kept(e) == ~(e.kind = "search" /\ is_cache(e.text))

entry_type(e) == IF e.kind = "search" THEN SEARCH_TYPE ELSE EMAIL_TYPE

texts_of(features) == {f.feature : f \in features}

text_of(db, featureid) ==
    (CHOOSE f \in db.features : f.featureid = featureid).feature

\* C19: while a report is ingested, no search row is recorded for a text that
\* begins "cache:"; every other search or email entry read so far has its
\* row, with its count and type, as often as it was read, and the drive has
\* no other row; the features table gained the texts of the entries kept and
\* no other text.
C19_CacheSearchesSkipped ==
    /\ \A r \in BagToSet(conn.feature_drive_counts) :
          r.feature_type = SEARCH_TYPE => ~is_cache(text_of(conn, r.featureid))
    /\ Ingesting =>
         LET histogram == {i \in 1..Len(entries) :
                              entries[i].kind # "winpe" /\ kept(entries[i])}
             mine == {r \in BagToSet(conn.feature_drive_counts) : r.driveid = driveid}
         IN /\ \A i \in histogram :
                 \E r \in mine :
                    /\ r.feature_type = entry_type(entries[i])
                    /\ text_of(conn, r.featureid) = entries[i].text
                    /\ r.count = entries[i].count
                    /\ CopiesIn(r, conn.feature_drive_counts)
                         = Cardinality({j \in histogram : entries[j] = entries[i]})
            /\ count_rows(mine, conn.feature_drive_counts) = Cardinality(histogram)
            /\ texts_of(conn.features)
                 = texts_of(before.features)
                     \cup {entries[i].text : i \in {i \in 1..Len(entries) : kept(entries[i])}}

\* a search entry and an email entry that both begin "cache:" were read, on
\* a database that did not know the text
C19_Witness ==
    /\ Ingesting
    /\ \E i \in 1..Len(entries) : entries[i].kind = "search" /\ is_cache(entries[i].text)
    /\ \E i \in 1..Len(entries) : entries[i].kind = "email" /\ is_cache(entries[i].text)
    /\ \A f \in before.features : ~is_cache(f.feature)

=============================================================================
